---- MODULE Spec2Model ----
(***************************************************************************)
(* Model of pillow_glm_tutorials/Tutorial1_PoissonGLM.ipynb: the notebook  *)
(* is a sequence of code cells that share one global namespace.  Each      *)
(* cell is one action; a cell that raises keeps the bindings it made       *)
(* before the exception and the reader moves on to the next cell           *)
(* (Shift-Enter, notebook lines 31-41).  Plotting and printing calls are   *)
(* left out.  Time is counted in integer ticks, real numbers are exact     *)
(* rationals <<n, d>> extended with the IEEE values NaN, +Inf and -Inf.    *)
(***************************************************************************)
EXTENDS Integers, Sequences, FiniteSets, TLC

\* ------------------------------------------------------------------ bounds
MaxT == 3
MaxK == 3
MaxSpikes == 2
MaxDt == 1
MaxCount == 2

StimVals == {-1, 0, 1}

\* ------------------------------------------------- program constants
cellnum == 2

\* ------------------------------------------------------ float arithmetic
Abs(x) == IF x < 0 THEN -x ELSE x
Sgn(x) == IF x < 0 THEN -1 ELSE IF x > 0 THEN 1 ELSE 0

RECURSIVE GCD(_, _)
GCD(a, b) == IF b = 0 THEN a ELSE GCD(b, a % b)

\* a float is <<n, d>>: d > 0 in lowest terms, or d = 0 for the
\* non-finite values <<1, 0>> (+inf), <<-1, 0>> (-inf), <<0, 0>> (nan)
NaN == <<0, 0>>
Inf == <<1, 0>>
RNorm(q) ==
  IF q[2] = 0 THEN <<Sgn(q[1]), 0>>
  ELSE LET g == GCD(Abs(q[1]), Abs(q[2]))
           s == Sgn(q[2])
       IN  <<(s * q[1]) \div g, (s * q[2]) \div g>>
R(i) == <<i, 1>>
IsFinite(q) == q[2] # 0
RNeg(q) == <<-q[1], q[2]>>
RAdd(a, b) ==
  IF a[2] = 0 /\ b[2] = 0
  THEN (IF a = b THEN a ELSE NaN)
  ELSE RNorm(<<a[1] * b[2] + b[1] * a[2], a[2] * b[2]>>)
RSub(a, b) == RAdd(a, RNeg(b))
RMul(a, b) == RNorm(<<a[1] * b[1], a[2] * b[2]>>)
RRecip(q) == IF q[1] < 0 THEN <<-q[2], -q[1]>> ELSE <<q[2], q[1]>>
RDiv(a, b) == RMul(a, RRecip(b))
RAbs(q) == <<Abs(q[1]), q[2]>>
RLess(a, b) == IsFinite(a) /\ IsFinite(b) /\ a[1] * b[2] < b[1] * a[2]

RECURSIVE RSum(_)
RSum(s) == IF s = <<>> THEN R(0) ELSE RAdd(s[1], RSum(Tail(s)))

RECURSIVE ISum(_)
ISum(s) == IF s = <<>> THEN 0 ELSE s[1] + ISum(Tail(s))

\* ------------------------------------------------------ numpy operations
\* Python slice a[start:stop] on a 1-D array, 0-based, negative indices
\* counted from the end and both ends clipped to the array
PyIndex(i, n) == LET p == IF i < 0 THEN i + n ELSE i
                 IN  IF p < 0 THEN 0 ELSE IF p > n THEN n ELSE p
PySlice(a, start, stop) ==
  SubSeq(a, PyIndex(start, Len(a)) + 1, PyIndex(stop, Len(a)))
PySliceTo(a, stop) == SubSeq(a, 1, PyIndex(stop, Len(a)))
PySliceFrom(a, start) == SubSeq(a, PyIndex(start, Len(a)) + 1, Len(a))

np_zeros(n) == [i \in 1..n |-> 0]
np_hstack(a, b) == a \o b

\* a 2-D array: r rows, c columns, v the entries
Idx(r, c) == (1..r) \X (1..c)
Mat(r, c, f) == [r |-> r, c |-> c, v |-> f]
NoMat == [r |-> 0, c |-> 0, v |-> <<>>]
Row(M, i) == [j \in 1..M.c |-> M.v[<<i, j>>]]
Transpose(M) == Mat(M.c, M.r, [q \in Idx(M.c, M.r) |-> LET i == q[1] j == q[2] IN M.v[<<j, i>>]])

\* scipy.linalg.hankel(c, r): first column c, last row r, r[0] ignored
hankel(c, r) ==
  LET vals == c \o Tail(r)
  IN  Mat(Len(c), Len(r), [q \in Idx(Len(c), Len(r)) |-> LET i == q[1] j == q[2] IN vals[i + j - 1]])

\* np.histogram(a, bins) with explicit edges: cumulative counts by
\* searchsorted, 'left' at every edge but the last, 'right' at the last
SearchSortedLeft(a, x) == Cardinality({p \in 1..Len(a) : a[p] < x})
SearchSortedRight(a, x) == Cardinality({p \in 1..Len(a) : a[p] <= x})
np_histogram(a, bins) ==
  LET nb == Len(bins)
      cum == [i \in 1..nb |-> IF i < nb THEN SearchSortedLeft(a, bins[i])
                                        ELSE SearchSortedRight(a, bins[i])]
  IN  [i \in 1..(nb - 1) |-> cum[i + 1] - cum[i]]

\* ------------------------------------------------------ linear algebra
Entry(M, i, j) == M.v[<<i, j>>]
Minor(M, a, b) ==
  Mat(M.r - 1, M.c - 1,
      [q \in Idx(M.r - 1, M.c - 1) |-> LET i == q[1] j == q[2] IN Entry(M, IF i < a THEN i ELSE i + 1, IF j < b THEN j ELSE j + 1)])
Parity(n) == IF n % 2 = 0 THEN 1 ELSE -1

RECURSIVE Det(_)
Det(M) ==
  IF M.r = 0 THEN 1
  ELSE ISum([j \in 1..M.c |->
               IF Entry(M, 1, j) = 0 THEN 0
               ELSE Parity(1 + j) * Entry(M, 1, j) * Det(Minor(M, 1, j))])
Cofactor(M, i, j) == Parity(i + j) * Det(Minor(M, i, j))

\* X.T @ X and X.T @ y for an integer-valued array X
Gram(X) ==
  Mat(X.c, X.c, [q \in Idx(X.c, X.c) |-> LET a == q[1] b == q[2] IN ISum([i \in 1..X.r |-> Entry(X, i, a) * Entry(X, i, b)])])
MatTVec(X, y) == [j \in 1..X.c |-> ISum([i \in 1..X.r |-> Entry(X, i, j) * y[i]])]

\* |n / m| is a power of two (n, m nonzero)
Pow2s == {2^e : e \in 0..30}
IsPow2(x) == x \in Pow2s
IsPow2Ratio(n, m) ==
  LET g == GCD(Abs(n), Abs(m)) IN IsPow2(Abs(n) \div g) /\ IsPow2(Abs(m) \div g)

\* The LU factorisation with partial pivoting that numpy.linalg.inv runs,
\* in fraction-free form: M holds the exact values (scaled by the previous
\* pivot d), T marks the entries that went through a rounded operation.
\* A multiplier a * (1 / pivot) is exact when the pivot or a / pivot is a
\* power of two; an update a - l * u is exact when its operands are.
\*   "ok"       every pivot is nonzero
\*   "singular" a pivot column holds exact zeros only: inv raises
\*   "rounded"  the pivot column is zero in exact arithmetic but was
\*              computed with rounding: the stored values are zero or of
\*              the order of eps, depending on the BLAS build
RECURSIVE LUOutcome(_, _, _, _)
LUOutcome(M, T, k, d) ==
  IF k > M.r THEN "ok"
  ELSE LET cand == {i \in k..M.r : Entry(M, i, k) # 0}
       IN  IF cand = {}
           THEN (IF \E i \in k..M.r : T[<<i, k>>] THEN "rounded" ELSE "singular")
           ELSE LET p == CHOOSE i \in cand :
                           \A q \in cand :
                             \/ Abs(Entry(M, i, k)) > Abs(Entry(M, q, k))
                             \/ (Abs(Entry(M, i, k)) = Abs(Entry(M, q, k)) /\ i <= q)
                    sw(i) == IF i = k THEN p ELSE IF i = p THEN k ELSE i
                    S == Mat(M.r, M.c, [q \in Idx(M.r, M.c) |-> LET i == q[1] j == q[2] IN Entry(M, sw(i), j)])
                    U == [q \in Idx(M.r, M.c) |-> T[<<sw(q[1]), q[2]>>]]
                    piv == Entry(S, k, k)
                    nz(i, j) == Entry(S, i, j) # 0 \/ U[<<i, j>>]
                    lt == [i \in (k + 1)..M.r |->
                             /\ nz(i, k)
                             /\ \/ U[<<i, k>>]
                                \/ U[<<k, k>>]
                                \/ ~(IsPow2Ratio(piv, d) \/ IsPow2Ratio(Entry(S, i, k), piv))]
                    N == Mat(M.r, M.c,
                             [q \in Idx(M.r, M.c) |-> LET i == q[1] j == q[2] IN
                               IF i > k /\ j > k
                               THEN (piv * Entry(S, i, j) - Entry(S, i, k) * Entry(S, k, j)) \div d
                               ELSE Entry(S, i, j)])
                    V == [q \in Idx(M.r, M.c) |->
                            IF q[1] > k /\ q[2] > k
                            THEN \/ U[q]
                                 \/ (nz(q[1], k) /\ nz(k, q[2]) /\ (lt[q[1]] \/ U[<<k, q[2]>>]))
                            ELSE U[q]]
                IN  LUOutcome(N, V, k + 1, piv)
LinAlgOutcome(A) == LUOutcome(A, [q \in Idx(A.r, A.c) |-> FALSE], 1, 1)

\* the inverse of a matrix with nonzero determinant
ExactInverse(A) ==
  LET d == Det(A) IN Mat(A.r, A.c, [q \in Idx(A.r, A.c) |-> LET i == q[1] j == q[2] IN RNorm(<<Cofactor(A, j, i), d>>)])

\* numpy.linalg.inv(A): the set of results of the call.  When rounding
\* hides a zero pivot the call returns entries of the order of 1/eps that
\* carry no information; they are represented by an infinity.
Raised == [raised |-> TRUE, value |-> NoMat]
Returned(m) == [raised |-> FALSE, value |-> m]
inv(A) ==
  LET o == LinAlgOutcome(A)
  IN  IF o = "ok" THEN {Returned(ExactInverse(A))}
      ELSE IF o = "singular" THEN {Raised}
      ELSE {Raised} \cup {Returned(Mat(A.r, A.c, [q \in Idx(A.r, A.c) |-> LET i == q[1] j == q[2] IN h])) : h \in {Inf, RNeg(Inf)}}

\* M @ w, M float-valued; X @ w, X integer-valued; w a float vector
RDot(a, b) == RSum([i \in 1..Len(a) |-> RMul(a[i], b[i])])
RMatVec(M, w) == [i \in 1..M.r |-> RDot(Row(M, i), w)]
ToR(y) == [i \in 1..Len(y) |-> R(y[i])]
IMatVec(X, w) == [i \in 1..X.r |-> RDot(ToR(Row(X, i)), w)]

\* np.hstack((np.ones((n, 1)), X))
HStackOnes(n, X) == Mat(n, X.c + 1, [q \in Idx(n, X.c + 1) |-> LET i == q[1] j == q[2] IN IF j = 1 THEN 1 ELSE Entry(X, i, j - 1)])

\* np.mean, and the fit measure printed by cell 4d
np_mean(y) == RDiv(RSum(y), R(Len(y)))
MeanSqErr(y, yhat) == np_mean([i \in 1..Len(y) |-> LET e == RSub(y[i], yhat[i]) IN RMul(e, e)])
Broadcast(x, n) == [i \in 1..n |-> x]
Rss(y) == MeanSqErr(y, Broadcast(np_mean(y), Len(y)))
FractionVarianceExplained_NoMean(y, yhat) ==
  RSub(R(1), RDiv(MeanSqErr(y, yhat), MeanSqErr(y, Broadcast(R(0), Len(y)))))
FractionVarianceExplained(y, yhat) == RSub(R(1), RDiv(MeanSqErr(y, yhat), Rss(y)))

\* ------------------------------------------------------------------ state
VARIABLES pc, bound, outcome, Data,
          Stim, stimtimes, tsp, dtStim, nT, nsp,
          tbins, sps,
          ntfilt, paddedStim, Xdsgn,
          sta, wsta, sppred_lgGLM,
          Xdsgn2, MLwts, const, wsta2, sppred_lgGLM2,
          mse1, mse2, rss, perf1, perf2

vars == <<pc, bound, outcome, Data,
          Stim, stimtimes, tsp, dtStim, nT, nsp,
          tbins, sps,
          ntfilt, paddedStim, Xdsgn,
          sta, wsta, sppred_lgGLM,
          Xdsgn2, MLwts, const, wsta2, sppred_lgGLM2,
          mse1, mse2, rss, perf1, perf2>>

loaded == <<Data, Stim, stimtimes, tsp, dtStim, nT, nsp>>
binned == <<tbins, sps>>
design == <<ntfilt, paddedStim, Xdsgn>>
linear == <<sta, wsta, sppred_lgGLM>>
offsetFit == <<Xdsgn2, MLwts, const, wsta2, sppred_lgGLM2>>
scores == <<mse1, mse2, rss, perf1, perf2>>

Cells == <<"cell1", "cell2", "cell3", "cell3b", "cell4", "cell4b", "cell4c", "cell4d", "done">>
CellNames == {Cells[i] : i \in 1..Len(Cells)}
NextCell(c) == Cells[(CHOOSE i \in 1..Len(Cells) : Cells[i] = c) + 1]

\* non-decreasing sequences of at most n values of S
SortedSeqs(S, n) ==
  UNION {{s \in [1..m -> S] : \A i \in 1..(m - 1) : s[i] <= s[i + 1]} : m \in 0..n}

\* the array bundle Tutorial1_data.npz
DataBundles ==
  {[Stim |-> s, stimtimes |-> [i \in 1..(Len(s) + 1) |-> (i - 1) * dt], SpTimes |-> (cellnum :> t)] :
     <<s, dt, t>> \in
       UNION {UNION {[1..n -> StimVals] \X {d} \X SortedSeqs((-1)..(n * d + 1), MaxSpikes) :
                d \in 1..MaxDt} : n \in 1..MaxT}}

Init ==
  /\ pc = "cell1"
  /\ bound = {}
  /\ outcome = [c \in {} |-> "ok"]
  /\ Data \in DataBundles
  /\ Stim = <<>> /\ stimtimes = <<>> /\ tsp = <<>>
  /\ dtStim = 0 /\ nT = 0 /\ nsp = 0
  /\ tbins = <<>> /\ sps = <<>>
  /\ ntfilt = 0 /\ paddedStim = <<>> /\ Xdsgn = NoMat
  /\ sta = <<>> /\ wsta = <<>> /\ sppred_lgGLM = <<>>
  /\ Xdsgn2 = NoMat /\ MLwts = <<>> /\ const = R(0) /\ wsta2 = <<>> /\ sppred_lgGLM2 = <<>>
  /\ mse1 = R(0) /\ mse2 = R(0) /\ rss = R(0) /\ perf1 = R(0) /\ perf2 = R(0)

Finish(cell, result, names) ==
  /\ pc' = NextCell(cell)
  /\ outcome' = (cell :> result) @@ outcome
  /\ bound' = bound \cup names

\* ==== 1. Load the raw data
Cell1 ==
  /\ pc = "cell1"
  /\ Stim' = Data.Stim
  /\ stimtimes' = Data.stimtimes
  /\ tsp' = Data.SpTimes[cellnum]
  /\ dtStim' = Data.stimtimes[2] - Data.stimtimes[1]
  /\ nT' = Len(Data.Stim)
  /\ nsp' = Len(Data.SpTimes[cellnum])
  /\ Finish("cell1", "ok", {"Stim", "stimtimes", "tsp", "dtStim", "nT", "nsp"})
  /\ UNCHANGED <<Data, binned, design, linear, offsetFit, scores>>

\* ==== 2. Bin the spike train
Cell2 ==
  /\ pc = "cell2"
  /\ tbins' = [i \in 1..(nT + 1) |-> (i - 1) * dtStim]
  /\ sps' = np_histogram(tsp, tbins')
  /\ Finish("cell2", "ok", {"tbins", "sps"})
  /\ UNCHANGED <<loaded, design, linear, offsetFit, scores>>

\* ==== 3. Build the design matrix: slow version
SlowDesign(padded, n, k) ==
  LET rows == [j \in 0..(n - 1) |-> PySlice(padded, j, j + k)]
  IN  Mat(n, k, [q \in Idx(n, k) |-> LET i == q[1] j == q[2] IN rows[i - 1][j]])

Cell3 ==
  /\ pc = "cell3"
  /\ \E k \in 1..MaxK :
       /\ ntfilt' = k
       /\ paddedStim' = np_hstack(np_zeros(k - 1), Stim)
       /\ Xdsgn' = SlowDesign(paddedStim', nT, k)
  /\ Finish("cell3", "ok", {"ntfilt", "paddedStim", "Xdsgn"})
  /\ UNCHANGED <<loaded, binned, linear, offsetFit, scores>>

\* ==== 3b. Build the design matrix: fast version
FastDesign(padded, stim, k) ==
  hankel(PySliceTo(padded, -k + 1), PySliceFrom(stim, -k))

Cell3b ==
  /\ pc = "cell3b"
  /\ paddedStim' = np_hstack(np_zeros(ntfilt - 1), Stim)
  /\ Xdsgn' = FastDesign(paddedStim', Stim, ntfilt)
  /\ Finish("cell3b", "ok", {"paddedStim", "Xdsgn"})
  /\ UNCHANGED <<loaded, binned, ntfilt, linear, offsetFit, scores>>

\* === 4. Compute the spike-triggered average (STA)
ComputeSTA_PerBin(X, y, n) == [j \in 1..X.c |-> RDiv(R(MatTVec(X, y)[j]), R(Len(y)))]
ComputeSTA(X, y, n) == [j \in 1..X.c |-> RDiv(R(MatTVec(X, y)[j]), R(n))]

Cell4 ==
  /\ pc = "cell4"
  /\ IF Xdsgn.r # Len(sps)
     THEN /\ Finish("cell4", "ValueError", {})
          /\ UNCHANGED sta
     ELSE /\ sta' = ComputeSTA(Xdsgn, sps, nsp)
          /\ Finish("cell4", "ok", {"sta"})
  /\ UNCHANGED <<loaded, binned, design, wsta, sppred_lgGLM, offsetFit, scores>>

\* ===== 4b. whitened STA
WhitenedSTA(invXtX, s, n) ==
  LET w == RMatVec(invXtX, s)
  IN  [j \in 1..Len(w) |-> RMul(w[j], R(n))]

Cell4b ==
  /\ pc = "cell4b"
  /\ \E res \in inv(Gram(Xdsgn)) :
       IF res.raised
       THEN /\ Finish("cell4b", "LinAlgError", {})
            /\ UNCHANGED wsta
       ELSE IF "sta" \notin bound
       THEN /\ Finish("cell4b", "NameError", {})
            /\ UNCHANGED wsta
       ELSE /\ wsta' = WhitenedSTA(res.value, sta, nsp)
            /\ Finish("cell4b", "ok", {"wsta"})
  /\ UNCHANGED <<loaded, binned, design, sta, sppred_lgGLM, offsetFit, scores>>

\* ===== 4c. Predicting spikes with a linear-Gaussian GLM
Cell4c ==
  /\ pc = "cell4c"
  /\ IF "wsta" \notin bound
     THEN /\ Finish("cell4c", "NameError", {})
          /\ UNCHANGED sppred_lgGLM
     ELSE /\ sppred_lgGLM' = IMatVec(Xdsgn, wsta)
          /\ Finish("cell4c", "ok", {"sppred_lgGLM"})
  /\ UNCHANGED <<loaded, binned, design, sta, wsta, offsetFit, scores>>

\* ===== 4d. Fitting and predicting with a linear-Gaussian-GLM with offset
LeastSquares(invXtX, X, y) == RMatVec(invXtX, ToR(MatTVec(X, y)))
PredictOffset(c, X, w) == LET p == IMatVec(X, w) IN [i \in 1..Len(p) |-> RAdd(c, p[i])]

Cell4d ==
  /\ pc = "cell4d"
  /\ IF Xdsgn.r # nT
     THEN /\ Finish("cell4d", "ValueError", {})
          /\ UNCHANGED <<offsetFit, scores>>
     ELSE /\ Xdsgn2' = HStackOnes(nT, Xdsgn)
          /\ \E res \in inv(Gram(Xdsgn2')) :
               IF res.raised
               THEN /\ Finish("cell4d", "LinAlgError", {"Xdsgn2"})
                    /\ UNCHANGED <<MLwts, const, wsta2, sppred_lgGLM2, scores>>
               ELSE /\ MLwts' = LeastSquares(res.value, Xdsgn2', sps)
                    /\ const' = MLwts'[1]
                    /\ wsta2' = Tail(MLwts')
                    /\ sppred_lgGLM2' = PredictOffset(const', Xdsgn, wsta2')
                    /\ IF "sppred_lgGLM" \notin bound
                       THEN /\ Finish("cell4d", "NameError",
                                      {"Xdsgn2", "MLwts", "const", "wsta2", "sppred_lgGLM2"})
                            /\ UNCHANGED scores
                       ELSE /\ mse1' = MeanSqErr(ToR(sps), sppred_lgGLM)
                            /\ mse2' = MeanSqErr(ToR(sps), sppred_lgGLM2')
                            /\ rss' = Rss(ToR(sps))
                            /\ perf1' = FractionVarianceExplained(ToR(sps), sppred_lgGLM)
                            /\ perf2' = FractionVarianceExplained(ToR(sps), sppred_lgGLM2')
                            /\ Finish("cell4d", "ok",
                                      {"Xdsgn2", "MLwts", "const", "wsta2", "sppred_lgGLM2",
                                       "mse1", "mse2", "rss"})
  /\ UNCHANGED <<loaded, binned, design, linear>>

Next == Cell1 \/ Cell2 \/ Cell3 \/ Cell3b \/ Cell4 \/ Cell4b \/ Cell4c \/ Cell4d

Spec == Init /\ [][Next]_vars

\* ---- the fit measure of cell 4d on its own: observed counts y and two
\* ---- prediction series drawn from bounded sets
Preds(y) ==
  {ToR(y), Broadcast(np_mean(ToR(y)), Len(y))} \cup {ToR(z) : z \in [1..Len(y) -> 0..1]}

InitFVE ==
  /\ pc = "fve"
  /\ bound = {"nT", "sps", "sppred_lgGLM", "sppred_lgGLM2"}
  /\ outcome = [c \in {} |-> "ok"]
  /\ Data = [Stim |-> <<>>, stimtimes |-> <<>>, SpTimes |-> (cellnum :> <<>>)]
  /\ Stim = <<>> /\ stimtimes = <<>> /\ tsp = <<>>
  /\ dtStim = 0 /\ nsp = 0
  /\ tbins = <<>>
  /\ \E n \in 1..MaxT : \E y \in [1..n -> 0..MaxCount] :
       /\ nT = n
       /\ sps = y
       /\ sppred_lgGLM \in Preds(y)
       /\ sppred_lgGLM2 \in Preds(y)
  /\ ntfilt = 0 /\ paddedStim = <<>> /\ Xdsgn = NoMat
  /\ sta = <<>> /\ wsta = <<>>
  /\ Xdsgn2 = NoMat /\ MLwts = <<>> /\ const = R(0) /\ wsta2 = <<>>
  /\ mse1 = R(0) /\ mse2 = R(0) /\ rss = R(0) /\ perf1 = R(0) /\ perf2 = R(0)

EvalFit ==
  /\ pc = "fve"
  /\ mse1' = MeanSqErr(ToR(sps), sppred_lgGLM)
  /\ mse2' = MeanSqErr(ToR(sps), sppred_lgGLM2)
  /\ rss' = Rss(ToR(sps))
  /\ perf1' = FractionVarianceExplained(ToR(sps), sppred_lgGLM)
  /\ perf2' = FractionVarianceExplained(ToR(sps), sppred_lgGLM2)
  /\ pc' = "fve_done"
  /\ bound' = bound \cup {"mse1", "mse2", "rss"}
  /\ UNCHANGED <<outcome, loaded, binned, design, linear, offsetFit>>

SpecFVE == InitFVE /\ [][EvalFit]_vars

\* ------------------------------------------------------------------ claims

\* C1: the design matrix of the closed-form Hankel call (cell 3b) is the
\* one the explicit row loop (cell 3) built, element for element, and has
\* shape nT x k, for every window length k >= 1
C1_SlowFastIdentical ==
  [][pc = "cell3b" => (Xdsgn' = Xdsgn /\ Xdsgn'.r = nT /\ Xdsgn'.c = ntfilt)]_vars

\* C2: the design matrix is nT x k, entry (i, j) is the stimulus sample at
\* 0-based time i - (k-1) + j, or 0 when that index is negative; the last
\* column is the stimulus itself and each row is the previous row shifted
\* left by one with the next sample appended
StimAt(t) == IF t >= 1 THEN Stim[t] ELSE 0
C2_DesignEntries ==
  "Xdsgn" \in bound =>
    /\ Xdsgn.r = nT
    /\ Xdsgn.c = ntfilt
    /\ \A i \in 1..nT : \A j \in 1..ntfilt : Xdsgn.v[<<i, j>>] = StimAt(i - ntfilt + j)
    /\ \A i \in 1..nT : Xdsgn.v[<<i, ntfilt>>] = Stim[i]
    /\ \A i \in 1..(nT - 1) :
         /\ \A j \in 1..(ntfilt - 1) : Xdsgn.v[<<i + 1, j>>] = Xdsgn.v[<<i, j + 1>>]
         /\ Xdsgn.v[<<i + 1, ntfilt>>] = Stim[i + 1]

\* C3: count[i] is the number of spike times in the half-open interval
\* [edges[i], edges[i+1]) for every bin, the last one included
InBin(t, i) == tbins[i] <= t /\ t < tbins[i + 1]
C3_HalfOpenBins ==
  "sps" \in bound =>
    /\ Len(sps) = nT
    /\ \A i \in 1..nT : sps[i] = Cardinality({p \in 1..Len(tsp) : InBin(tsp[p], i)})

\* C6: the binned counts sum to the number of spike times t with
\* edges[0] <= t < edges[-1]
InSpan(t) == tbins[1] <= t /\ t < tbins[Len(tbins)]
C6_CountsSumToSpikesInSpan ==
  "sps" \in bound =>
    ISum(sps) = Cardinality({p \in 1..Len(tsp) : InSpan(tsp[p])})

\* C4: the STA is (X^T y) / sum(y): the normaliser is the sum of the binned
\* counts, also when some spike times fall outside the binned span
C4_STANormalisedBySumOfCounts ==
  ("sta" \in bound /\ ISum(sps) > 0) =>
    sta = [j \in 1..Xdsgn.c |-> RDiv(R(MatTVec(Xdsgn, sps)[j]), R(ISum(sps)))]

\* C5: whenever X^T X is invertible the whitened filter satisfies the
\* normal equations (X^T X) w = X^T y, without offset and with it; with
\* offset the matrix is X with a column of ones prepended, the first
\* coefficient is the offset, the rest is the filter, and
\* offset + X @ filter is the augmented matrix times the coefficients
Ran(cell) == cell \in DOMAIN outcome
C5_NormalEquations ==
  /\ (Ran("cell4b") /\ Xdsgn.r = nT /\ Det(Gram(Xdsgn)) # 0) =>
       /\ "wsta" \in bound
       /\ IMatVec(Gram(Xdsgn), wsta) = ToR(MatTVec(Xdsgn, sps))
  /\ (Ran("cell4d") /\ Xdsgn.r = nT /\ Det(Gram(HStackOnes(nT, Xdsgn))) # 0) =>
       /\ {"Xdsgn2", "MLwts", "const", "wsta2", "sppred_lgGLM2"} \subseteq bound
       /\ Xdsgn2 = HStackOnes(nT, Xdsgn)
       /\ Xdsgn2.r = nT /\ Xdsgn2.c = ntfilt + 1
       /\ IMatVec(Gram(Xdsgn2), MLwts) = ToR(MatTVec(Xdsgn2, sps))
       /\ MLwts = <<const>> \o wsta2
       /\ Len(wsta2) = ntfilt
       /\ sppred_lgGLM2 = IMatVec(Xdsgn2, MLwts)

\* C7: when the binned counts are all zero the STA step ends in an error
\* and binds no filter vector
C7_ZeroSpikesRaise ==
  (Ran("cell4") /\ ISum(sps) = 0) => (outcome["cell4"] # "ok" /\ "sta" \notin bound)

\* C8: with an all-zero stimulus and non-zero spike counts the whitened
\* filter step ends in the singular-matrix error and binds no filter,
\* without the offset column and with it; more generally it does so
\* whenever X^T X is not invertible
AllZeroStim == \A i \in 1..nT : Stim[i] = 0
C8_SingularRaises ==
  /\ (Ran("cell4b") /\ (Det(Gram(Xdsgn)) = 0 \/ (AllZeroStim /\ ISum(sps) > 0))) =>
       (outcome["cell4b"] = "LinAlgError" /\ "wsta" \notin bound)
  /\ (Ran("cell4d") /\ "Xdsgn2" \in bound
        /\ (Det(Gram(Xdsgn2)) = 0 \/ (AllZeroStim /\ ISum(sps) > 0))) =>
       (outcome["cell4d"] = "LinAlgError" /\ {"MLwts", "const", "wsta2"} \cap bound = {})

\* C9: alternating +1/-1 stimulus, one spike in exactly the bins whose
\* stimulus two bins earlier was +1, window k = 3
AlternatingStim ==
  /\ \A i \in 1..nT : Stim[i] \in {1, -1}
  /\ \A i \in 1..(nT - 1) : Stim[i + 1] = -Stim[i]
SpikesTwoBinsAfterPlus ==
  \A i \in 1..nT : sps[i] = IF i >= 3 /\ Stim[i - 2] = 1 THEN 1 ELSE 0
C9_Scenario ==
  /\ "sta" \in bound
  /\ ntfilt = 3
  /\ AlternatingStim
  /\ SpikesTwoBinsAfterPlus
  /\ ISum(sps) >= 1

\* C9 as stated: the STA is positive at column 0 (two bins prior) and the
\* other two columns are smaller in magnitude (near zero)
C9_PeakOnlyTwoBinsPrior ==
  C9_Scenario =>
    /\ Len(sta) = 3
    /\ RLess(R(0), sta[1])
    /\ RLess(RAbs(sta[2]), sta[1])
    /\ RLess(RAbs(sta[3]), sta[1])

\* C9 amended: the three columns of the STA have the same magnitude
\* c = sum(y) / nsp > 0, with signs +, -, +: the alternating stimulus has
\* period 2, so the column of the current bin repeats the column two bins
\* prior and the column one bin prior is its negation
C9_AlternatingSTA ==
  C9_Scenario =>
    LET c == RDiv(R(ISum(sps)), R(nsp))
    IN  /\ sta = <<c, RNeg(c), c>>
        /\ RLess(R(0), c)

C9_Witness == C9_Scenario /\ pc = "done" /\ nsp > ISum(sps)

\* C10: the fit measure 1 - mean((y-yhat)^2) / mean((y-mean(y))^2) is 1
\* when yhat = y and 0 when yhat is the constant series mean(y), for every
\* observed series y with non-zero variance
NonZeroVariance(y) == \E i, j \in 1..Len(y) : y[i] # y[j]
MeanSeries(y) == Broadcast(np_mean(ToR(y)), Len(y))
C10_FitMeasure ==
  (pc = "fve_done" /\ NonZeroVariance(sps)) =>
    /\ sppred_lgGLM = ToR(sps) => perf1 = R(1)
    /\ sppred_lgGLM2 = ToR(sps) => perf2 = R(1)
    /\ sppred_lgGLM = MeanSeries(sps) => perf1 = R(0)
    /\ sppred_lgGLM2 = MeanSeries(sps) => perf2 = R(0)

C10_Witness ==
  /\ pc = "fve_done"
  /\ NonZeroVariance(sps)
  /\ sppred_lgGLM = ToR(sps) /\ perf1 = R(1)
  /\ sppred_lgGLM2 = MeanSeries(sps) /\ perf2 = R(0)

\* C11: across the run every artifact (binned counts, padded stimulus,
\* design matrix, offset matrix, STA, whitened filters, predictions) is
\* assigned by exactly one cell: once its name is bound no later cell changes
\* its value; in particular no cell after the design-matrix cell (cell 3)
\* writes the design matrix again, and cells 4 to 4d leave the design matrix
\* and the spike counts unchanged.
WriteOnce(name, old, new) == name \in bound => new = old
C11_WriteOnce ==
  [][/\ WriteOnce("sps", sps, sps')
     /\ WriteOnce("paddedStim", paddedStim, paddedStim')
     /\ WriteOnce("Xdsgn", Xdsgn, Xdsgn')
     /\ WriteOnce("Xdsgn2", Xdsgn2, Xdsgn2')
     /\ WriteOnce("sta", sta, sta')
     /\ WriteOnce("wsta", wsta, wsta')
     /\ WriteOnce("wsta2", wsta2, wsta2')
     /\ WriteOnce("const", const, const')
     /\ WriteOnce("sppred_lgGLM", sppred_lgGLM, sppred_lgGLM')
     /\ WriteOnce("sppred_lgGLM2", sppred_lgGLM2, sppred_lgGLM2')
     /\ (pc \in {"cell4", "cell4b", "cell4c", "cell4d"} => (Xdsgn' = Xdsgn /\ sps' = sps))]_vars

====
